---- MODULE Spec2Model ----
(***************************************************************************)
(* Model of update_pref.py: the streaming preference controller.           *)
(*                                                                         *)
(* run_controller is a state machine over pc; process_block is split at    *)
(* its two await points (the zone block lookup and the preference update   *)
(* call), because those are the only places where the coroutine suspends.  *)
(*                                                                         *)
(* Numbers.  Python integers are unbounded and the rewards are in wei      *)
(* (10**18 per unit); TLC integers are 32 bit.  The fixed-point unit is    *)
(* therefore rescaled (Wei, KQiDen) with the formulas left as they are.    *)
(* Floats: the preference direct/total is kept as the exact fraction       *)
(* <<direct, total>>; rate_ema is kept in fixed point, EmaUnit steps per   *)
(* wei, and the EMA step rounds to the nearest representable value, as a   *)
(* float addition does at its own (finer) resolution.                      *)
(* Difficulties, rates and discounts are non-negative and far below the    *)
(* float range (chain integers have at most 256 bits), so no conversion    *)
(* of an integer to a float raises OverflowError.                          *)
(***************************************************************************)
EXTENDS Integers, Sequences, FiniteSets, TLC

\* ---- bounds of the model ----
MaxCycles == 4      \* headers handed to process_block in one run
MaxConns  == 3      \* successful websocket connections in one run
MaxFails  == 7      \* saturation of the consecutive-failure counter
EmaUnit   == 1000   \* representable rate_ema values per wei

\* ---- CONFIG (update_pref.py:14-18) and literals ----
Wei             == 1000   \* 10**18, rescaled
KQiDen          == 8      \* BASE_K_QI = 1 / (8 * 10**9), rescaled
AlphaDen        == 1000   \* ALPHA_RATE_EMA = 0.001
DeltaDen        == 100    \* DELTA = 0.01
ThresholdDen    == 10000  \* 1e-4
INITIAL_BACKOFF == 1
MAX_BACKOFF     == 60

None == -1          \* Python None for rate_ema (a rate is never negative)

Min(a, b) == IF a < b THEN a ELSE b
Abs(a)    == IF a < 0 THEN 0 - a ELSE a

\* a / b rounded to the nearest integer (b > 0)
RoundDiv(a, b) == (2 * a + b) \div (2 * b)

\* ---- JSON values ----
\* A text field of a JSON object: present or not, and its characters.
\* Characters 0..15 are the hex digits, 16 is any other character.
NoField     == [present |-> FALSE, text |-> <<>>]
Text(t)     == [present |-> TRUE, text |-> t]
HexZero     == <<0>>                      \* "0x0"

\* int(text, 16) raises ValueError
HexInvalid(t) == Len(t) = 0 \/ \E i \in 1..Len(t) : t[i] > 15

\* int(text, 16)
RECURSIVE HexInt(_)
HexInt(t) == IF Len(t) = 0 THEN 0
             ELSE 16 * HexInt(SubSeq(t, 1, Len(t) - 1)) + t[Len(t)]

\* dict.get(key, default) on a field
GetOr(f, default) == IF f.present THEN f.text ELSE default

\* hdr["woHeader"]["number"] / hdr["woBody"]["header"]["minerDifficulty"]:
\* KeyError when absent, ValueError when not hex
IndexRaises(f) == ~f.present \/ HexInvalid(f.text)

\* ---- inputs ----
\* Messages on the stream.  json = FALSE: json.loads raises.
\* shape "wrapped": result has woHeader and woBody; "flat": the header
\* fields are at the top level of result; "other": no header at all (result
\* absent, or an object without woBody/woHeader); "null": params.result is
\* the JSON null, so that hdr is None.
Numbers      == {Text(<<1>>), NoField, Text(<<16>>)}
GoodHeaders  == {[json |-> TRUE, shape |-> "wrapped", number |-> Text(<<1>>),
                  minerDifficulty |-> d] : d \in {Text(<<0>>), Text(<<8>>)}}
BadHeaders   == {[json |-> TRUE, shape |-> "wrapped", number |-> n,
                  minerDifficulty |-> Text(<<8>>)] : n \in Numbers \ {Text(<<1>>)}}
                \cup
                {[json |-> TRUE, shape |-> "wrapped", number |-> Text(<<1>>),
                  minerDifficulty |-> d] : d \in {NoField, Text(<<1, 16>>)}}
OtherMsgs    == {[json |-> TRUE, shape |-> s, number |-> Text(<<1>>),
                  minerDifficulty |-> Text(<<8>>)] : s \in {"flat", "other", "null"}}
                \cup
                {[json |-> FALSE, shape |-> "other", number |-> NoField,
                  minerDifficulty |-> NoField]}
Messages     == GoodHeaders \cup BadHeaders \cup OtherMsgs

\* What rpc_call returns for quai_getBlockByNumber.
\* kind "none": transport error or a response without result (None);
\* kind "empty": the result {}; kind "dict": a block, with or without header.
ExchangeRates == {NoField, Text(<<3, 14, 8>>), Text(<<16>>)}     \* 0x3e8 = 1000
Discounts     == {NoField, Text(<<5>>), Text(<<1, 4>>), Text(<<16>>)}  \* 5, 20
ZoneNone      == [kind |-> "none", exchangeRate |-> NoField, kQuaiDiscount |-> NoField]
ZoneEmpty     == [kind |-> "empty", exchangeRate |-> NoField, kQuaiDiscount |-> NoField]
ZoneBlocks    == {[kind |-> "dict", exchangeRate |-> r, kQuaiDiscount |-> d] :
                     r \in ExchangeRates \ {Text(<<16>>)}, d \in Discounts \ {Text(<<16>>)}}
                 \cup
                 {[kind |-> "dict", exchangeRate |-> Text(<<16>>), kQuaiDiscount |-> NoField],
                  [kind |-> "dict", exchangeRate |-> Text(<<3, 14, 8>>), kQuaiDiscount |-> Text(<<16>>)]}
ZoneReplies   == {ZoneNone, ZoneEmpty} \cup ZoneBlocks

VARIABLES
    pc,                 \* where run_controller is
    backoff,            \* run_controller's local backoff
    rate_ema,           \* state["rate_ema"], None or fixed point
    last_pref,          \* state["last_pref"], a fraction <<num, den>>
    qi_wei,             \* process_block's local qi_wei
    effective_rate_wei, \* process_block's local effective_rate_wei
    before_ema,         \* process_block's local before_ema
    direct_quai_wei,    \* process_block's local direct_quai_wei
    qi_to_quai_wei,     \* process_block's local qi_to_quai_wei
    pref,               \* process_block's local pref (the candidate)
    sent,               \* params of the miner_setMinerPreference calls of this cycle
    conn,               \* number of the websocket connection in use
    cycles,             \* process_block calls so far
    fails,              \* consecutive passes through the except handler
    event               \* what the last step was caused by

vars == <<pc, backoff, rate_ema, last_pref, qi_wei, effective_rate_wei,
          before_ema, direct_quai_wei, qi_to_quai_wei, pref,
          sent, conn, cycles, fails, event>>

ctrl   == <<backoff, conn, fails>>
locals == <<qi_wei, effective_rate_wei, before_ema, direct_quai_wei,
            qi_to_quai_wei, pref, sent>>
computed == <<effective_rate_wei, before_ema, direct_quai_wei, qi_to_quai_wei, pref>>
state  == <<rate_ema, last_pref>>

Half == <<1, 2>>    \* 0.5

Init ==
    /\ pc = "connecting"
    /\ backoff = INITIAL_BACKOFF
    /\ rate_ema = None
    /\ last_pref = Half
    /\ qi_wei = 0
    /\ effective_rate_wei = 0
    /\ before_ema = None
    /\ direct_quai_wei = 0
    /\ qi_to_quai_wei = 0
    /\ pref = Half
    /\ sent = <<>>
    /\ conn = 0
    /\ cycles = 0
    /\ fails = 0
    /\ event = "start"

\* ---- run_controller ----

\* except Exception: log, then await asyncio.sleep(backoff)
Except ==
    /\ pc' = "backoff"
    /\ fails' = Min(fails + 1, MaxFails)
    /\ UNCHANGED <<backoff, conn>>

\* backoff = min(backoff * 2, MAX_BACKOFF)
NextBackoffLinear(b) == Min(b + INITIAL_BACKOFF, MAX_BACKOFF)
NextBackoff(b) == Min(b * 2, MAX_BACKOFF)

\* websockets.connect and ws.send of the subscribe request
ConnectResetting(outcome) ==
    /\ pc = "connecting"
    /\ event' = IF outcome = "ok" THEN "connected" ELSE "connect_failed"
    /\ IF outcome = "ok"
         THEN /\ conn < MaxConns
              /\ pc' = "subscribed"
              /\ conn' = conn + 1
              /\ UNCHANGED <<backoff, fails>>
         ELSE Except
    /\ rate_ema' = None
    /\ last_pref' = Half
    /\ UNCHANGED <<locals, cycles>>
Connect(outcome) ==
    /\ pc = "connecting"
    /\ event' = IF outcome = "ok" THEN "connected" ELSE "connect_failed"
    /\ IF outcome = "ok"
         THEN /\ conn < MaxConns
              /\ pc' = "subscribed"
              /\ conn' = conn + 1
              /\ UNCHANGED <<backoff, fails>>
         ELSE Except
    /\ UNCHANGED <<state, locals, cycles>>

\* asyncio.wait_for(ws.recv(), timeout=5) returns a message: whatever it
\* is, it is logged as the acknowledgment and backoff is reset
AckReceived(kind) ==
    /\ pc = "subscribed"
    /\ pc' = "streaming"
    /\ backoff' = INITIAL_BACKOFF
    /\ fails' = 0
    /\ event' = kind
    /\ UNCHANGED <<conn, state, locals, cycles>>

\* asyncio.TimeoutError: log and return from run_controller
AckTimeout ==
    /\ pc = "subscribed"
    /\ pc' = "returned"
    /\ event' = "ack_timeout"
    /\ UNCHANGED <<ctrl, state, locals, cycles>>

\* ws.recv() raises ConnectionClosed while waiting for the acknowledgment
AckLost ==
    /\ pc = "subscribed"
    /\ event' = "ack_conn_lost"
    /\ Except
    /\ UNCHANGED <<state, locals, cycles>>

\* await asyncio.sleep(backoff) is over
Wake ==
    /\ pc = "backoff"
    /\ pc' = "connecting"
    /\ backoff' = NextBackoff(backoff)
    /\ event' = "slept"
    /\ UNCHANGED <<conn, fails, state, locals, cycles>>

\* the async for over ws ends: a clean close ends the iteration, an
\* abnormal one raises ConnectionClosedError
StreamClosed(how) ==
    /\ pc = "streaming"
    /\ event' = IF how = "clean" THEN "peer_close" ELSE "conn_lost"
    /\ IF how = "clean"
         THEN pc' = "connecting" /\ UNCHANGED ctrl
         ELSE Except
    /\ UNCHANGED <<state, locals, cycles>>

\* "woBody" in hdr and "woHeader" in hdr
IsWoHeader(msg) == msg.shape = "wrapped"

\* qi_wei = int(BASE_K_QI * diff * 10**18)
QiWei(diff) == (diff * Wei) \div KQiDen

\* "woBody" in hdr raises TypeError: hdr is None
ShapeTestRaises(msg) == msg.shape = "null"

\* what a message of the stream is, for the log of events
MsgEvent(msg) ==
    IF ~msg.json THEN "bad_json"
    ELSE IF msg.shape = "flat" THEN "flat_header"
    ELSE IF msg.shape = "other" THEN "no_header"
    ELSE IF msg.shape = "null" THEN "null_result"
    ELSE IF IndexRaises(msg.number) \/ IndexRaises(msg.minerDifficulty) THEN "bad_header"
    ELSE "header"

\* one message of the stream: json.loads, the shape test, and
\* process_block up to its first await
RecvMessageConcurrent(msg) ==
    /\ pc \in {"streaming", "zone_call", "pref_call"}
    /\ event' = MsgEvent(msg)
    /\ IF ~msg.json \/ ShapeTestRaises(msg)
         THEN Except /\ UNCHANGED <<state, locals, cycles>>
       ELSE IF ~IsWoHeader(msg)
         THEN UNCHANGED <<pc, ctrl, state, locals, cycles>>
       ELSE /\ cycles < MaxCycles
            /\ cycles' = cycles + 1
            /\ sent' = <<>>
            /\ IF IndexRaises(msg.number) \/ IndexRaises(msg.minerDifficulty)
                 THEN Except /\ UNCHANGED <<state, qi_wei, computed>>
               ELSE /\ qi_wei' = QiWei(HexInt(msg.minerDifficulty.text))
                    /\ pc' = "zone_call"
                    /\ UNCHANGED <<ctrl, state, computed>>
RecvMessage(msg) ==
    /\ pc = "streaming"
    /\ event' = MsgEvent(msg)
    /\ IF ~msg.json \/ ShapeTestRaises(msg)
         THEN Except /\ UNCHANGED <<state, locals, cycles>>
       ELSE IF ~IsWoHeader(msg)
         THEN UNCHANGED <<pc, ctrl, state, locals, cycles>>
       ELSE /\ cycles < MaxCycles
            /\ cycles' = cycles + 1
            /\ sent' = <<>>
            /\ IF IndexRaises(msg.number) \/ IndexRaises(msg.minerDifficulty)
                 THEN Except /\ UNCHANGED <<state, qi_wei, computed>>
               ELSE /\ qi_wei' = QiWei(HexInt(msg.minerDifficulty.text))
                    /\ pc' = "zone_call"
                    /\ UNCHANGED <<ctrl, state, computed>>

\* ---- process_block after the zone lookup ----

\* if not zone
NotZoneNever(zone) == FALSE
NotZone(zone) == zone.kind \in {"none", "empty"}

\* step 5, the EMA of effective_rate
NewEmaSignError(ema, eff) ==
    IF ema = None THEN eff * EmaUnit
    ELSE ema - RoundDiv(eff * EmaUnit - ema, AlphaDen)
NewEmaNoDifference(ema, eff) ==
    IF ema = None THEN eff * EmaUnit
    ELSE ema + RoundDiv(eff * EmaUnit, AlphaDen)
NewEmaZeroInit(ema, eff) ==
    IF ema = None THEN 0
    ELSE ema + RoundDiv(eff * EmaUnit - ema, AlphaDen)
NewEma(ema, eff) ==
    IF ema = None THEN eff * EmaUnit
    ELSE ema + RoundDiv(eff * EmaUnit - ema, AlphaDen)

\* effective_rate_wei < lower or effective_rate_wei > upper, with
\* lower = ema * (1 - DELTA), upper = ema * (1 + DELTA)
OutsideBandAny(eff, ema) == eff * EmaUnit # ema
OutsideBand(eff, ema) ==
    \/ eff * EmaUnit * DeltaDen < ema * (DeltaDen - 1)
    \/ eff * EmaUnit * DeltaDen > ema * (DeltaDen + 1)

\* step 8, the candidate preference
DecideInverted(direct, toQuai, eff, ema, last) ==
    IF OutsideBand(eff, ema)
      THEN IF direct + toQuai > 0 THEN <<direct + toQuai, direct>> ELSE last
      ELSE last
DecideNoGuard(direct, toQuai, eff, ema, last) ==
    IF OutsideBand(eff, ema)
      THEN <<direct, direct + toQuai>>
      ELSE last
DecideToQuai(direct, toQuai, eff, ema, last) ==
    IF OutsideBand(eff, ema)
      THEN IF direct + toQuai > 0 THEN <<toQuai, direct + toQuai>> ELSE last
      ELSE last
Decide(direct, toQuai, eff, ema, last) ==
    IF OutsideBand(eff, ema)
      THEN IF direct + toQuai > 0 THEN <<direct, direct + toQuai>> ELSE last
      ELSE last

\* abs(pref - last) > 1e-4
ChangedAlways(p, last) == TRUE
Changed(p, last) ==
    Abs(p[1] * last[2] - last[1] * p[2]) > (p[2] * last[2]) \div ThresholdDen

\* what the zone lookup returned, for the log of events
ZoneEvent(zone) ==
    IF zone.kind = "none" THEN "zone_rpc_fail"
    ELSE IF zone.kind = "empty" THEN "zone_empty"
    ELSE IF \/ HexInvalid(GetOr(zone.exchangeRate, HexZero))
            \/ HexInvalid(GetOr(zone.kQuaiDiscount, HexZero)) THEN "bad_zone_hex"
    ELSE "zone_ok"

\* (the variant writes the average before the zone record is parsed)
ZoneReplyEarlyWrite(zone) ==
    /\ pc = "zone_call"
    /\ event' = ZoneEvent(zone)
    /\ IF NotZone(zone)
         THEN /\ pc' = "streaming"
              /\ UNCHANGED <<ctrl, state, locals, cycles>>
       ELSE IF \/ HexInvalid(GetOr(zone.exchangeRate, HexZero))
               \/ HexInvalid(GetOr(zone.kQuaiDiscount, HexZero))
         THEN /\ Except
              /\ rate_ema' = NewEma(rate_ema, 0)
              /\ UNCHANGED <<last_pref, locals, cycles>>
       ELSE LET base_rate_wei == HexInt(GetOr(zone.exchangeRate, HexZero))
                discount_wei  == HexInt(GetOr(zone.kQuaiDiscount, HexZero))
                eff           == base_rate_wei + discount_wei
                ema           == NewEma(rate_ema, eff)
                direct        == (qi_wei * base_rate_wei) \div Wei
                toQuai        == (qi_wei * eff) \div Wei
                p             == Decide(direct, toQuai, eff, ema, last_pref)
            IN  /\ effective_rate_wei' = eff
                /\ before_ema' = IF rate_ema = None THEN before_ema ELSE rate_ema
                /\ rate_ema' = ema
                /\ direct_quai_wei' = direct
                /\ qi_to_quai_wei' = toQuai
                /\ pref' = p
                /\ IF Changed(p, last_pref)
                     THEN sent' = <<p>> /\ pc' = "pref_call"
                     ELSE sent' = sent /\ pc' = "streaming"
                /\ UNCHANGED <<ctrl, last_pref, qi_wei, cycles>>
ZoneReply(zone) ==
    /\ pc = "zone_call"
    /\ event' = ZoneEvent(zone)
    /\ IF NotZone(zone)
         THEN /\ pc' = "streaming"
              /\ UNCHANGED <<ctrl, state, locals, cycles>>
       ELSE IF \/ HexInvalid(GetOr(zone.exchangeRate, HexZero))
               \/ HexInvalid(GetOr(zone.kQuaiDiscount, HexZero))
         THEN Except /\ UNCHANGED <<state, locals, cycles>>
       ELSE LET base_rate_wei == HexInt(GetOr(zone.exchangeRate, HexZero))
                discount_wei  == HexInt(GetOr(zone.kQuaiDiscount, HexZero))
                eff           == base_rate_wei + discount_wei
                ema           == NewEma(rate_ema, eff)
                direct        == (qi_wei * base_rate_wei) \div Wei
                toQuai        == (qi_wei * eff) \div Wei
                p             == Decide(direct, toQuai, eff, ema, last_pref)
            IN  /\ effective_rate_wei' = eff
                /\ before_ema' = IF rate_ema = None THEN before_ema ELSE rate_ema
                /\ rate_ema' = ema
                /\ direct_quai_wei' = direct
                /\ qi_to_quai_wei' = toQuai
                /\ pref' = p
                /\ IF Changed(p, last_pref)
                     THEN sent' = <<p>> /\ pc' = "pref_call"
                     ELSE sent' = sent /\ pc' = "streaming"
                /\ UNCHANGED <<ctrl, last_pref, qi_wei, cycles>>

\* rpc_call for miner_setMinerPreference returns (a result, or None after
\* an error); then state["last_pref"] = pref
PrefReply(ok) ==
    /\ pc = "pref_call"
    /\ last_pref' = pref
    /\ pc' = "streaming"
    /\ event' = IF ok THEN "pref_ok" ELSE "pref_rpc_fail"
    /\ UNCHANGED <<ctrl, rate_ema, locals, cycles>>

\* KeyboardInterrupt: main logs and exits
Interrupt ==
    /\ pc \notin {"returned", "interrupted"}
    /\ pc' = "interrupted"
    /\ event' = "interrupt"
    /\ UNCHANGED <<ctrl, state, locals, cycles>>

Next ==
    \/ \E o \in {"ok", "refused"} : Connect(o)
    \/ \E k \in {"ack", "malformed_ack"} : AckReceived(k)
    \/ AckTimeout
    \/ AckLost
    \/ Wake
    \/ \E h \in {"clean", "error"} : StreamClosed(h)
    \/ \E m \in Messages : RecvMessage(m)
    \/ \E z \in ZoneReplies : ZoneReply(z)
    \/ \E ok \in BOOLEAN : PrefReply(ok)
    \/ Interrupt

Spec == Init /\ [][Next]_vars

\* ---- properties ----

\* |c - l| > 1e-4, stated on the fractions
ExceedsThreshold(c, l) ==
    LET d == c[1] * l[2] - l[1] * c[2]
        m == c[2] * l[2]
    IN  (IF d < 0 THEN 0 - d ELSE d) > m \div 10000

\* rate_ema * (1 - 1/100) <= raw <= rate_ema * (1 + 1/100)
InsideBand(raw, ema) ==
    /\ 99 * ema <= 100 * raw * EmaUnit
    /\ 100 * raw * EmaUnit <= 101 * ema

InCycle == pc \in {"zone_call", "pref_call"}
Streaming == pc \in {"streaming", "zone_call", "pref_call"}

\* C1: when the miner_setMinerPreference call fails, last_pref keeps its
\* previous value (it becomes the candidate only after a successful call).
C1_FailedPublishKeepsLastPref ==
    [][(pc = "pref_call" /\ event' = "pref_rpc_fail") => last_pref' = last_pref]_vars

\* C2: a timeout of the wait for the subscription acknowledgment leads to
\* BACKOFF; run_controller does not end there.
C2_AckTimeoutGoesToBackoff ==
    [][(pc = "subscribed" /\ event' = "ack_timeout") => pc' = "backoff"]_vars

\* C3: for every processed header, a candidate within the threshold of
\* last_pref issues no update call and leaves last_pref unchanged; a
\* candidate beyond the threshold issues exactly one call, carrying the
\* candidate; no cycle ever issues more than one call.
C3_PublishGating ==
    [][/\ (pc = "zone_call" /\ event' = "zone_ok") =>
            IF ExceedsThreshold(pref', last_pref)
              THEN sent' = <<pref'>> /\ pc' = "pref_call"
              ELSE sent' = <<>> /\ last_pref' = last_pref /\ pc' = "streaming"
       /\ (pc = "pref_call" /\ pc' = "streaming") => sent' = <<pref>>
       /\ Len(sent') <= 1]_vars

C3_Witness ==
    /\ pc = "streaming"
    /\ event = "pref_ok"
    /\ sent = <<pref>>
    /\ last_pref = pref
    /\ pref # Half

\* C4: a processed header whose raw effective rate lies inside the band
\* around the rate_ema of that cycle leaves last_pref as it was and
\* issues no update call, so N such cycles in a row leave it unchanged.
C4_DeadBandKeepsPref ==
    [][(/\ pc = "zone_call"
        /\ event' = "zone_ok"
        /\ InsideBand(effective_rate_wei', rate_ema')) =>
            /\ last_pref' = last_pref
            /\ sent' = <<>>
            /\ pc' = "streaming"]_vars

\* inside the band, but not on the average, with a published preference
\* that the direct ratio of this header would have replaced
C4_Witness ==
    /\ pc = "streaming"
    /\ event = "zone_ok"
    /\ InsideBand(effective_rate_wei, rate_ema)
    /\ effective_rate_wei * EmaUnit # rate_ema
    /\ qi_wei > 0
    /\ effective_rate_wei = 1005
    /\ last_pref \notin {Half, <<1000, 2005>>}
    /\ sent = <<>>

RECURSIVE Pow2(_)
Pow2(k) == IF k = 0 THEN 1 ELSE 2 * Pow2(k - 1)

Least(a, b) == IF a <= b THEN a ELSE b

\* C5: the k-th consecutive failure sleeps min(d0 * 2^(k-1), dmax), the
\* delay is then doubled up to dmax, it always lies within [d0, dmax],
\* and after a received acknowledgment it is d0 while streaming.
C5_BackoffSequence ==
    /\ backoff >= INITIAL_BACKOFF
    /\ backoff <= MAX_BACKOFF
    /\ pc = "backoff" => /\ fails >= 1
                         /\ backoff = Least(INITIAL_BACKOFF * Pow2(fails - 1), MAX_BACKOFF)
    /\ pc \in {"connecting", "subscribed", "returned"} =>
            backoff = Least(INITIAL_BACKOFF * Pow2(fails), MAX_BACKOFF)
    /\ Streaming => (fails = 0 /\ backoff = INITIAL_BACKOFF)

\* the ceiling is reached after a connection that had been acknowledged
C5_Witness ==
    /\ pc = "backoff"
    /\ conn > 0
    /\ fails = MaxFails
    /\ backoff = MAX_BACKOFF

\* C6: every loss of the connection while streaming, a clean close by the
\* peer included, moves the controller to BACKOFF.
C6_PeerCloseGoesToBackoff ==
    [][(pc = "streaming" /\ event' \in {"peer_close", "conn_lost"}) => pc' = "backoff"]_vars

\* C7: a malformed acknowledgment is a failure: BACKOFF, no reset of the
\* delay, no STREAMING on that connection.
C7_MalformedAckIsFailure ==
    [][(pc = "subscribed" /\ event' = "malformed_ack") =>
            (pc' = "backoff" /\ backoff' = backoff)]_vars

\* C8: a failed zone block lookup skips the cycle: rate_ema and last_pref
\* are unchanged, no update call is issued, and the controller is back in
\* STREAMING on the same connection.
C8_ZoneFailureSkipsCycle ==
    [][(pc = "zone_call" /\ event' = "zone_rpc_fail") =>
            /\ rate_ema' = rate_ema
            /\ last_pref' = last_pref
            /\ sent' = <<>>
            /\ pc' = "streaming"
            /\ conn' = conn
            /\ backoff' = backoff]_vars

\* a skipped cycle after one that had set the average and published
C8_Witness ==
    /\ pc = "streaming"
    /\ event = "zone_rpc_fail"
    /\ rate_ema # None
    /\ last_pref # Half
    /\ sent = <<>>

\* C9: a protocol error in a message or header drops only that message:
\* the controller keeps streaming on the same connection.
C9_ProtocolErrorDropsMessage ==
    [][(Streaming /\ event' \in {"bad_json", "bad_header", "bad_zone_hex"}) =>
            (pc' = "streaming" /\ conn' = conn /\ backoff' = backoff)]_vars

\* C10: only a process_block cycle writes rate_ema and last_pref: every
\* step of connecting, subscribing, failing, backing off and reconnecting
\* leaves them as they are, and rate_ema never goes back to None.
C10_ReconnectKeepsState ==
    [][/\ (~InCycle \/ pc' \in {"backoff", "connecting", "subscribed"}) =>
            (rate_ema' = rate_ema /\ last_pref' = last_pref)
       /\ rate_ema # None => rate_ema' # None]_vars

\* streaming again on a later connection, with the state of an earlier one
C10_Witness ==
    /\ pc = "streaming"
    /\ event \in {"ack", "malformed_ack"}
    /\ conn >= 2
    /\ rate_ema # None
    /\ last_pref # Half

\* C11: an event message that carries a block header in either wire
\* shape, flat or wrapped, starts one process_block cycle.
C11_BothShapesProcessed ==
    [][(pc = "streaming" /\ event' \in {"header", "flat_header"}) =>
            (pc' = "zone_call" /\ cycles' = cycles + 1)]_vars

\* C12: a message without a header of a recognized shape is ignored: no
\* change of rate_ema or last_pref, no call, no backoff, no disconnect.
C12_NoHeaderIgnored ==
    [][(pc = "streaming" /\ event' \in {"no_header", "null_result"}) =>
            /\ pc' = "streaming"
            /\ rate_ema' = rate_ema
            /\ last_pref' = last_pref
            /\ sent' = sent
            /\ backoff' = backoff
            /\ conn' = conn
            /\ cycles' = cycles]_vars

\* 0 <= f <= 1 for a fraction f
InUnitInterval(f) == f[2] > 0 /\ 0 <= f[1] /\ f[1] <= f[2]

\* C13: the candidate preference, every value sent in
\* miner_setMinerPreference and last_pref are within [0, 1].
C13_PrefInUnitInterval ==
    /\ InUnitInterval(pref)
    /\ InUnitInterval(last_pref)
    /\ \A i \in 1..Len(sent) : InUnitInterval(sent[i])

\* the lower end of the interval is published
C13_Witness ==
    /\ event = "pref_ok"
    /\ last_pref[1] = 0
    /\ sent = <<last_pref>>

\* C14: with a total reward of zero the candidate is the unchanged last
\* preference (no division by zero), and no update call is issued.
C14_ZeroTotalKeepsLast ==
    [][(/\ pc = "zone_call"
        /\ event' = "zone_ok"
        /\ direct_quai_wei' + qi_to_quai_wei' = 0) =>
            /\ pref'[2] # 0
            /\ pref' = last_pref
            /\ last_pref' = last_pref
            /\ sent' = <<>>
            /\ pc' = "streaming"]_vars

\* a zero total outside the dead-band, after a preference was published
C14_Witness ==
    /\ pc = "streaming"
    /\ event = "zone_ok"
    /\ direct_quai_wei + qi_to_quai_wei = 0
    /\ ~InsideBand(effective_rate_wei, rate_ema)
    /\ last_pref # Half
    /\ pref = last_pref

\* C15: a header is handed to process_block only when no cycle is in
\* flight, and rate_ema and last_pref are written only by the one cycle
\* in flight.
C15_SequentialProcessing ==
    [][/\ cycles' # cycles => (pc = "streaming" /\ pc' \in {"zone_call", "backoff"})
       /\ (rate_ema' # rate_ema \/ last_pref' # last_pref) =>
              (InCycle /\ cycles' = cycles)]_vars

\* a later cycle in flight, after two that completed
C15_Witness ==
    /\ pc = "zone_call"
    /\ before_ema # None
    /\ cycles >= 3

\* C16: the first sample sets rate_ema to the sample; a later sample s
\* sets it to rate_ema + ALPHA * (s - rate_ema) (to the nearest
\* representable value), which lies between the old value and s; once
\* set, rate_ema is never None again.
C16_EmaUpdate ==
    [][/\ (pc = "zone_call" /\ event' = "zone_ok") =>
            LET s == effective_rate_wei' * EmaUnit
                step == rate_ema' - rate_ema
            IN  IF rate_ema = None
                  THEN rate_ema' = s
                  ELSE /\ 2 * (1000 * step - (s - rate_ema)) <= 1000
                       /\ 2 * ((s - rate_ema) - 1000 * step) <= 1000
                       /\ s >= rate_ema => (rate_ema <= rate_ema' /\ rate_ema' <= s)
                       /\ s <= rate_ema => (s <= rate_ema' /\ rate_ema' <= rate_ema)
       /\ rate_ema # None => rate_ema' # None]_vars

\* a later sample moved the average strictly between its old value and
\* the sample
C16_Witness ==
    /\ event = "zone_ok"
    /\ before_ema # None
    /\ rate_ema # before_ema
    /\ rate_ema # effective_rate_wei * EmaUnit

Distance(a, b) == IF a < b THEN b - a ELSE a - b

\* C17: a sample equal to rate_ema leaves rate_ema as it is, so a stream
\* that is constant from the first sample keeps rate_ema on the sample;
\* any other sample shrinks the distance to it by the factor 1 - ALPHA
\* (up to rounding), which bounds the steps to come within a tolerance.
C17_ConstantStreamIdempotent ==
    [][(pc = "zone_call" /\ event' = "zone_ok" /\ rate_ema # None) =>
            LET s == effective_rate_wei' * EmaUnit
            IN  /\ rate_ema = s => rate_ema' = s
                /\ 1000 * Distance(rate_ema', s) <= 999 * Distance(rate_ema, s) + 500]_vars

\* a repeated sample, with the average on it before and after
C17_Witness ==
    /\ event = "zone_ok"
    /\ before_ema # None
    /\ before_ema = rate_ema
    /\ rate_ema = effective_rate_wei * EmaUnit
    /\ effective_rate_wei > 0

\* 0 <= f <= 1/2 for a fraction f
AtMostHalf(f) == f[2] > 0 /\ 0 <= f[1] /\ 2 * f[1] <= f[2]

\* C18: direct_quai_wei never exceeds qi_to_quai_wei, so the candidate,
\* every value sent and last_pref are within [0, 0.5].
C18_PrefAtMostHalf ==
    /\ direct_quai_wei <= qi_to_quai_wei
    /\ AtMostHalf(pref)
    /\ AtMostHalf(last_pref)
    /\ \A i \in 1..Len(sent) : AtMostHalf(sent[i])

\* a preference strictly between 0 and 0.5 is published
C18_Witness ==
    /\ event = "pref_ok"
    /\ last_pref[1] > 0
    /\ 2 * last_pref[1] < last_pref[2]
    /\ direct_quai_wei < qi_to_quai_wei

\* C19: the first processed header sets rate_ema to its sample, which is
\* inside its own band; the candidate is the initial 0.5 and no update
\* call is issued.
C19_FirstHeaderNeverPublishes ==
    [][(pc = "zone_call" /\ event' = "zone_ok" /\ rate_ema = None) =>
            /\ rate_ema' = effective_rate_wei' * EmaUnit
            /\ InsideBand(effective_rate_wei', rate_ema')
            /\ pref' = Half
            /\ last_pref' = Half
            /\ sent' = <<>>
            /\ pc' = "streaming"]_vars

\* a first header whose direct ratio is not 0.5
C19_Witness ==
    /\ pc = "streaming"
    /\ event = "zone_ok"
    /\ before_ema = None
    /\ rate_ema = 1020 * EmaUnit
    /\ direct_quai_wei > 0
    /\ direct_quai_wei < qi_to_quai_wei
    /\ last_pref = Half
    /\ sent = <<>>

====
